---- MODULE Spec2Model ----
(***************************************************************************)
(* A state-machine model of four pieces of the repository:                 *)
(*                                                                         *)
(*   ProtocolFeesWithdrawer  (pkg/standalone-utils)  - specification Spec  *)
(*   BaseTokenlessPool       (pkg/pools/metas)       - PoolSpec,           *)
(*                                                     PoolFairSpec        *)
(*   MetaStablePoolOracleMiscData  (pkg/pools/metas) - MiscDataSpec        *)
(*   deploy and linkBytecode       (TypeScript)      - DeploySpec          *)
(*                                                                         *)
(* and, for what the two contracts' constructors set once and for all,     *)
(* both contracts side by side - ImmutablesSpec.                           *)
(*                                                                         *)
(* Every external function is one action: a transaction that either        *)
(* succeeds, changing storage and emitting events, or reverts, leaving     *)
(* storage as it was.  The last transaction is kept in a record (wCall,    *)
(* pCall) so that properties can speak of its outcome.                     *)
(***************************************************************************)
EXTENDS Integers, Sequences, FiniteSets, TLC

VARIABLES
    \* ProtocolFeesWithdrawer
    _denylistedTokens,   \* EnumerableSet.AddressSet: its _values array
    wPrev,               \* _denylistedTokens before the last transaction
    wCall,               \* the last transaction sent to the withdrawer
    Withdrawer_protocolFeesCollector, \* _protocolFeesCollector, immutable
    wConstructorVault,   \* history: the vault the constructor was given
    \* BaseTokenlessPool
    deployed,            \* whether the constructor has run to its end
    _miscData,           \* bytes32: the set of the positions of its one-bits
    _paused,             \* TemporarilyPausable._paused
    _pauseWindowEndTime, \* TemporarilyPausable, immutable
    _bufferPeriodEndTime, \* TemporarilyPausable, immutable
    _owner,              \* BasePoolAuthorization._owner, immutable
    now,                 \* block.timestamp
    lastSwapFeeSet,      \* history: the argument of the last successful
                         \* _setSwapFeePercentage
    pCall,               \* the last transaction sent to the pool
    _vault,              \* immutable
    _poolId,             \* immutable
    _protocolFeesCollector, \* immutable
    pConstructorVault,   \* history: the vault the constructor was given
    \* MetaStablePoolOracleMiscData
    data,                \* bytes32: the word the library's functions act on
    mCall,               \* the last setter applied to data
    \* deploy
    dpc,                 \* where the call of deploy stands
    artifact,            \* the Artifact object passed in: evm.bytecode.object
                         \* and evm.bytecode.linkReferences
    libs,                \* the Libraries passed in, or Undefined
    args,                \* the array passed in (the caller's own), or Undefined
    inputsLength,        \* factory.interface.deploy.inputs.length
    overrides,           \* the local variable overrides
    encoded,             \* what encodeDeploy was called with
    sent,                \* what factory.deploy was called with
    args0,               \* history: args when deploy was called
    bytecode0            \* history: the bytecode when deploy was called

wvars == <<_denylistedTokens, wPrev, wCall>>

pvars == <<deployed, _miscData, _paused, _pauseWindowEndTime, _bufferPeriodEndTime,
           _owner, now, lastSwapFeeSet, pCall>>

\* what the constructors set once and for all
wimm == <<Withdrawer_protocolFeesCollector, wConstructorVault>>

pimm == <<_vault, _poolId, _protocolFeesCollector, pConstructorVault>>

mvars == <<data, mCall>>

dvars == <<dpc, artifact, libs, args, inputsLength, overrides, encoded, sent, args0,
           bytecode0>>

vars == <<wvars, wimm, pvars, pimm, mvars, dvars>>

\* what a transaction sent to the withdrawer, or to the pool, cannot touch
wOthers == <<wimm, pvars, pimm, mvars, dvars>>

pOthers == <<pimm, wvars, wimm, mvars, dvars>>

----------------------------------------------------------------------------
(* Bounds of the model *)

\* the longest token array passed to a call or to the constructor
MaxLen == 2

\* the last block timestamp of a run
MaxTime == 4

\* the longest pauseWindowDuration and bufferPeriodDuration
MaxDuration == 1

\* the most inputs a constructor has
MaxInputs == 2

----------------------------------------------------------------------------
(* Values *)

Tokens == {"DAI", "WETH", "BPT"}

Accounts == {"governance", "keeper", "stranger"}

NoError == "ok"

Range(s) == {s[i] : i \in 1..Len(s)}

SeqsUpTo(S, n) == UNION {[1..k -> S] : k \in 0..n}

----------------------------------------------------------------------------
(* Authorizer: the permissions the Vault's Authorizer holds.  They are set *)
(* outside these contracts; the model fixes one assignment in which a      *)
(* caller is allowed everything, a caller one action only, and a caller    *)
(* nothing.                                                                *)

AuthorizerCanPerform(actionId, account) ==
    \/ account = "governance"
    \/ account = "keeper" /\ actionId = "withdrawCollectedFees"

\* the Vaults a contract may be deployed against
Vaults == {"vaultA", "vaultB"}

\* IVault.getProtocolFeesCollector(): the collector the Vault created when it
\* was itself deployed
Vault_getProtocolFeesCollector(vault) ==
    IF vault = "vaultA" THEN "collectorOfVaultA" ELSE "collectorOfVaultB"

\* IVault.registerPool(): the id the Vault gives to the pool that calls it
Vault_registerPool(vault) ==
    IF vault = "vaultA" THEN "poolIdFromVaultA" ELSE "poolIdFromVaultB"

\* the zero address, and the zero bytes32 of an id
NoAddress == "0x0"

\* SingletonAuthentication._canPerform
Singleton_canPerform(actionId, account) == AuthorizerCanPerform(actionId, account)

----------------------------------------------------------------------------
(* EnumerableSet.AddressSet over its array of values *)

EnumerableSet_contains(set, value) == value \in Range(set)

EnumerableSet_length(set) == Len(set)

\* add: appends a value that is not in the set yet
EnumerableSet_add(set, value) ==
    IF EnumerableSet_contains(set, value)
    THEN [ok |-> FALSE, set |-> set]
    ELSE [ok |-> TRUE, set |-> Append(set, value)]

\* remove: moves the last value into the removed one's slot and pops
EnumerableSet_remove(set, value) ==
    IF ~EnumerableSet_contains(set, value)
    THEN [ok |-> FALSE, set |-> set]
    ELSE LET toDeleteIndex == CHOOSE i \in 1..Len(set) : set[i] = value
             lastIndex == Len(set)
             moved == [set EXCEPT ![toDeleteIndex] = set[lastIndex]]
         IN  [ok |-> TRUE, set |-> SubSeq(moved, 1, lastIndex - 1)]

----------------------------------------------------------------------------
(* ProtocolFeesWithdrawer: views *)

isWithdrawableToken(token) == ~EnumerableSet_contains(_denylistedTokens, token)

RECURSIVE isWithdrawableTokensFrom(_, _)
isWithdrawableTokensFrom(tokens, i) ==
    IF i > Len(tokens) THEN TRUE
    ELSE IF ~isWithdrawableToken(tokens[i]) THEN FALSE
    ELSE isWithdrawableTokensFrom(tokens, i + 1)

\* a loop that looks at the first token only
isWithdrawableTokens_FirstOnly(tokens) ==
    IF Len(tokens) = 0 THEN TRUE ELSE isWithdrawableToken(tokens[1])

isWithdrawableTokens(tokens) == isWithdrawableTokensFrom(tokens, 1)

----------------------------------------------------------------------------
(* ProtocolFeesWithdrawer: transactions *)

\* The record of a transaction: the function, msg.sender, the arguments
\* (tokens, index), the error it reverted with (NoError: it did not), the
\* value a view returned (<<>>: none), the events it emitted and whether the
\* ProtocolFeesCollector's withdrawCollectedFees was invoked.
WTx(fn, sender, tokens, index, error, result, events, collector) ==
    [fn |-> fn, sender |-> sender, tokens |-> tokens, index |-> index,
     error |-> error, result |-> result, events |-> events,
     collectorCalled |-> collector]

\* a transaction that reverted: storage is as before
WRevert(fn, sender, tokens, error, collector) ==
    /\ _denylistedTokens' = _denylistedTokens
    /\ wPrev' = _denylistedTokens
    /\ wCall' = WTx(fn, sender, tokens, 0, error, <<>>, <<>>, collector)
    /\ UNCHANGED wOthers

\* a view: nothing is written
WView(fn, sender, tokens, index, error, result) ==
    /\ _denylistedTokens' = _denylistedTokens
    /\ wPrev' = _denylistedTokens
    /\ wCall' = WTx(fn, sender, tokens, index, error, result, <<>>, FALSE)
    /\ UNCHANGED wOthers

\* _denylistToken over a set: the set afterwards, or the revert
_denylistToken(set, token) ==
    LET r == EnumerableSet_add(set, token)
    IN  IF r.ok
        THEN [error |-> NoError, set |-> r.set, events |-> <<<<"TokenDenylisted", token>>>>]
        ELSE [error |-> "Token already denylisted", set |-> set, events |-> <<>>]

\* the constructor's loop over initialDeniedTokens
RECURSIVE constructorLoop(_, _, _)
constructorLoop(set, initialDeniedTokens, i) ==
    IF i > Len(initialDeniedTokens) THEN [error |-> NoError, set |-> set]
    ELSE LET r == _denylistToken(set, initialDeniedTokens[i])
         IN  IF r.error # NoError THEN [error |-> r.error, set |-> set]
             ELSE constructorLoop(r.set, initialDeniedTokens, i + 1)

isWithdrawableTokens_view(sender, tokens) ==
    WView("isWithdrawableTokens", sender, tokens, 0, NoError,
          <<isWithdrawableTokens(tokens)>>)

isWithdrawableToken_view(sender, token) ==
    WView("isWithdrawableToken", sender, <<token>>, 0, NoError,
          <<isWithdrawableToken(token)>>)

getDenylistedToken(sender, index) ==
    IF index < EnumerableSet_length(_denylistedTokens)
    THEN WView("getDenylistedToken", sender, <<>>, index, NoError,
               <<_denylistedTokens[index + 1]>>)
    ELSE WView("getDenylistedToken", sender, <<>>, index, "OUT_OF_BOUNDS", <<>>)

getDenylistedTokensLength(sender) ==
    WView("getDenylistedTokensLength", sender, <<>>, 0, NoError,
          <<EnumerableSet_length(_denylistedTokens)>>)

\* the require is skipped
withdrawCollectedFees_NoCheck(sender, tokens, collectorOk) ==
    IF ~Singleton_canPerform("withdrawCollectedFees", sender)
    THEN WRevert("withdrawCollectedFees", sender, tokens, "SENDER_NOT_ALLOWED", FALSE)
    ELSE IF ~collectorOk
    THEN WRevert("withdrawCollectedFees", sender, tokens, "COLLECTOR_REVERTED", TRUE)
    ELSE /\ _denylistedTokens' = _denylistedTokens
         /\ wPrev' = _denylistedTokens
         /\ wCall' = WTx("withdrawCollectedFees", sender, tokens, 0, NoError, <<>>, <<>>, TRUE)
         /\ UNCHANGED wOthers

\* collectorOk: whether the ProtocolFeesCollector, which checks the inputs
\* itself, accepts the call
withdrawCollectedFees(sender, tokens, collectorOk) ==
    IF ~Singleton_canPerform("withdrawCollectedFees", sender)
    THEN WRevert("withdrawCollectedFees", sender, tokens, "SENDER_NOT_ALLOWED", FALSE)
    ELSE IF ~isWithdrawableTokens(tokens)
    THEN WRevert("withdrawCollectedFees", sender, tokens,
                 "Attempting to withdraw denylisted token", FALSE)
    ELSE IF ~collectorOk
    THEN WRevert("withdrawCollectedFees", sender, tokens, "COLLECTOR_REVERTED", TRUE)
    ELSE /\ _denylistedTokens' = _denylistedTokens
         /\ wPrev' = _denylistedTokens
         /\ wCall' = WTx("withdrawCollectedFees", sender, tokens, 0, NoError, <<>>, <<>>, TRUE)
         /\ UNCHANGED wOthers

\* the token is put in front of the array, taking the first one's place
denylistToken_Overwrite(sender, token) ==
    IF ~Singleton_canPerform("denylistToken", sender)
    THEN WRevert("denylistToken", sender, <<token>>, "SENDER_NOT_ALLOWED", FALSE)
    ELSE IF EnumerableSet_contains(_denylistedTokens, token)
    THEN WRevert("denylistToken", sender, <<token>>, "Token already denylisted", FALSE)
    ELSE /\ _denylistedTokens' = IF Len(_denylistedTokens) = 0 THEN <<token>>
                                 ELSE [_denylistedTokens EXCEPT ![1] = token]
         /\ wPrev' = _denylistedTokens
         /\ wCall' = WTx("denylistToken", sender, <<token>>, 0, NoError, <<>>,
                         <<<<"TokenDenylisted", token>>>>, FALSE)
         /\ UNCHANGED wOthers

denylistToken(sender, token) ==
    IF ~Singleton_canPerform("denylistToken", sender)
    THEN WRevert("denylistToken", sender, <<token>>, "SENDER_NOT_ALLOWED", FALSE)
    ELSE LET r == _denylistToken(_denylistedTokens, token)
         IN  IF r.error # NoError
             THEN WRevert("denylistToken", sender, <<token>>, r.error, FALSE)
             ELSE /\ _denylistedTokens' = r.set
                  /\ wPrev' = _denylistedTokens
                  /\ wCall' = WTx("denylistToken", sender, <<token>>, 0, NoError, <<>>,
                                  r.events, FALSE)
                  /\ UNCHANGED wOthers

\* the last value is popped whichever token is named
allowlistToken_PopLast(sender, token) ==
    IF ~Singleton_canPerform("allowlistToken", sender)
    THEN WRevert("allowlistToken", sender, <<token>>, "SENDER_NOT_ALLOWED", FALSE)
    ELSE IF ~EnumerableSet_contains(_denylistedTokens, token)
    THEN WRevert("allowlistToken", sender, <<token>>, "Token is not denylisted", FALSE)
    ELSE /\ _denylistedTokens' = SubSeq(_denylistedTokens, 1, Len(_denylistedTokens) - 1)
         /\ wPrev' = _denylistedTokens
         /\ wCall' = WTx("allowlistToken", sender, <<token>>, 0, NoError, <<>>,
                         <<<<"TokenAllowlisted", token>>>>, FALSE)
         /\ UNCHANGED wOthers

allowlistToken(sender, token) ==
    IF ~Singleton_canPerform("allowlistToken", sender)
    THEN WRevert("allowlistToken", sender, <<token>>, "SENDER_NOT_ALLOWED", FALSE)
    ELSE LET r == EnumerableSet_remove(_denylistedTokens, token)
         IN  IF ~r.ok
             THEN WRevert("allowlistToken", sender, <<token>>, "Token is not denylisted", FALSE)
             ELSE /\ _denylistedTokens' = r.set
                  /\ wPrev' = _denylistedTokens
                  /\ wCall' = WTx("allowlistToken", sender, <<token>>, 0, NoError, <<>>,
                                  <<<<"TokenAllowlisted", token>>>>, FALSE)
                  /\ UNCHANGED wOthers

\* a variant that keeps the vault itself as the collector
constructorCollector_Vault(vault) == vault

\* _protocolFeesCollector = vault.getProtocolFeesCollector(), before the loop
\* over initialDeniedTokens
constructorCollector(vault) == Vault_getProtocolFeesCollector(vault)

Withdrawer_getProtocolFeesCollector == Withdrawer_protocolFeesCollector

\* the withdrawer as its constructor leaves it: one state for every vault
\* and every initialDeniedTokens the constructor accepts
WithdrawerConstructed(vault, initialDeniedTokens) ==
    LET r == constructorLoop(<<>>, initialDeniedTokens, 1)
    IN  /\ r.error = NoError
        /\ Withdrawer_protocolFeesCollector = constructorCollector(vault)
        /\ wConstructorVault = vault
        /\ _denylistedTokens = r.set
        /\ wPrev = <<>>
        /\ wCall = WTx("constructor", "deployer", initialDeniedTokens, 0, NoError,
                       <<>>, <<>>, FALSE)

WithdrawerInit ==
    \E vault \in {"vaultA"}, initialDeniedTokens \in SeqsUpTo(Tokens, MaxLen) :
        WithdrawerConstructed(vault, initialDeniedTokens)

WithdrawerNext ==
    \/ \E sender \in Accounts, tokens \in SeqsUpTo(Tokens, MaxLen), collectorOk \in BOOLEAN :
           withdrawCollectedFees(sender, tokens, collectorOk)
    \/ \E sender \in Accounts, token \in Tokens : denylistToken(sender, token)
    \/ \E sender \in Accounts, token \in Tokens : allowlistToken(sender, token)
    \/ \E sender \in Accounts, tokens \in SeqsUpTo(Tokens, MaxLen) :
           isWithdrawableTokens_view(sender, tokens)
    \/ \E sender \in Accounts, token \in Tokens : isWithdrawableToken_view(sender, token)
    \/ \E sender \in Accounts, index \in 0..Cardinality(Tokens) :
           getDenylistedToken(sender, index)
    \/ \E sender \in Accounts : getDenylistedTokensLength(sender)

----------------------------------------------------------------------------
(* uint256 and bytes32 values.  A 256-bit word is the set of the positions *)
(* of its one-bits (bit 0 is the least significant), so that shifts, masks *)
(* and comparisons act on all 256 bits.                                    *)

WordBits == 0..255

\* the word of a number given by its 16-bit limbs, least significant first
Uint(limbs) ==
    UNION {{16 * (i - 1) + j : j \in {k \in 0..15 : (limbs[i] \div (2 ^ k)) % 2 = 1}} :
           i \in 1..Len(limbs)}

Zero == {}

MinOf(S) == CHOOSE x \in S : \A y \in S : x <= y

\* a < b: the highest bit in which the two differ is a bit of b
Lt(a, b) == \E i \in b \ a : \A j \in a \ b : j < i

\* a + 1 and a - 1, modulo 2^256
Inc(a) ==
    IF a = WordBits THEN Zero
    ELSE LET k == MinOf(WordBits \ a) IN (a \ (0..(k - 1))) \cup {k}

Dec(a) ==
    IF a = Zero THEN WordBits
    ELSE LET k == MinOf(a) IN (a \ {k}) \cup (0..(k - 1))

\* (1 << bitLength) - 1
Mask(bitLength) == 0..(bitLength - 1)

\* a << k and a >> k on 256 bits
ShiftLeft(a, k) == {b + k : b \in a} \cap WordBits

ShiftRight(a, k) == {b - k : b \in {c \in a : c >= k}}

BitAnd(a, b) == a \cap b

BitOr(a, b) == a \cup b

BitNot(a) == WordBits \ a

----------------------------------------------------------------------------
(* WordCodec *)

\* uint256(word >> offset) & ((1 << bitLength) - 1)
decodeUint(word, offset, bitLength) == BitAnd(ShiftRight(word, offset), Mask(bitLength))

\* (word & ~(mask << offset)) | (value << offset)
insertUint(word, value, offset, bitLength) ==
    BitOr(BitAnd(word, BitNot(ShiftLeft(Mask(bitLength), offset))), ShiftLeft(value, offset))

\* (word & ~(_MASK_192 << offset)) | ((value & _MASK_192) << offset)
insertBits192(word, value, offset) ==
    BitOr(BitAnd(word, BitNot(ShiftLeft(Mask(192), offset))),
          ShiftLeft(BitAnd(value, Mask(192)), offset))

\* int256 result = value > maxInt ? (value | int256(~mask)) : value, where
\* value = (word >> offset) & mask and maxInt = (1 << (bitLength - 1)) - 1
decodeInt(word, offset, bitLength) ==
    LET value == BitAnd(ShiftRight(word, offset), Mask(bitLength))
    IN  IF Lt(Mask(bitLength - 1), value) THEN BitOr(value, BitNot(Mask(bitLength)))
        ELSE value

\* (word & ~(mask << offset)) | ((uint256(value) & mask) << offset)
insertInt(word, value, offset, bitLength) ==
    BitOr(BitAnd(word, BitNot(ShiftLeft(Mask(bitLength), offset))),
          ShiftLeft(BitAnd(value, Mask(bitLength)), offset))

\* (uint256(word >> offset) & 1) == 1
decodeBool(word, offset) == BitAnd(ShiftRight(word, offset), Mask(1)) = Mask(1)

\* (word & ~(1 << offset)) | (uint256(value ? 1 : 0) << offset)
insertBool(word, value, offset) ==
    BitOr(BitAnd(word, BitNot(ShiftLeft(Mask(1), offset))),
          ShiftLeft(IF value THEN Mask(1) ELSE Zero, offset))

\* the uint256 of a natural number below 2^31
Uint256(n) == {k \in 0..30 : (n \div (2 ^ k)) % 2 = 1}

\* the int256 of an integer of at most 32 bits: two's complement on 256 bits
Int256(n) == IF n >= 0 THEN Uint256(n) ELSE BitNot(Uint256((0 - n) - 1))

----------------------------------------------------------------------------
(* BaseTokenlessPool: constants and inputs *)

_MIN_TOKENS == 2

\* _getMaxTokens() is abstract: the value of a two-token (meta stable) pool
_getMaxTokens == 2

\* 1e12 = 0xE8D4A51000
_MIN_SWAP_FEE_PERCENTAGE == Uint(<<4096, 54437, 232>>)

\* 1e17 = 0x16345785D8A0000
_MAX_SWAP_FEE_PERCENTAGE == Uint(<<0, 23946, 17784, 355>>)

_SWAP_FEE_PERCENTAGE_OFFSET == 192

_getMinSwapFeePercentage == _MIN_SWAP_FEE_PERCENTAGE

_getMaxSwapFeePercentage == _MAX_SWAP_FEE_PERCENTAGE

_DELEGATE_OWNER == "0xBA1BA1..."

PoolAccounts == {"alice", "governance", "stranger"}

Owners == {"alice", _DELEGATE_OWNER}

\* swap fee percentages passed to the constructor and to
\* setSwapFeePercentage: 1e12 - 1, 1e12, 1e17, 1e17 + 1 and
\* 2^255 + 2^64 + 1, which does not fit in 64 bits
SwapFeeInputs ==
    {Dec(_MIN_SWAP_FEE_PERCENTAGE), _MIN_SWAP_FEE_PERCENTAGE,
     _MAX_SWAP_FEE_PERCENTAGE, Inc(_MAX_SWAP_FEE_PERCENTAGE), {0, 64, 255}}

\* words passed to _setMiscData: 0 and a word with one-bits on both sides
\* of bit 192
MiscDataInputs == {Zero, {0, 21, 22, 85, 191, 192, 255}}

\* token arrays passed to the constructor (addresses as numbers)
TokenArrayInputs == {<<1>>, <<1, 2>>, <<2, 1>>, <<1, 2, 3>>}

----------------------------------------------------------------------------
(* BaseTokenlessPool: authorization and pausing *)

_isOwnerOnlyAction(actionId) ==
    actionId = "setSwapFeePercentage" \/ actionId = "setAssetManagerPoolConfig"

\* BasePoolAuthorization._canPerform
_canPerform(actionId, account) ==
    IF _owner # _DELEGATE_OWNER /\ _isOwnerOnlyAction(actionId)
    THEN account = _owner
    ELSE AuthorizerCanPerform(actionId, account)

\* TemporarilyPausable._isNotPaused
_isNotPaused == now > _bufferPeriodEndTime \/ ~_paused

\* TemporarilyPausable._setPaused: the error, NoError when the flag is set
_setPaused(paused) ==
    IF paused
    THEN IF now < _pauseWindowEndTime THEN NoError ELSE "PAUSE_WINDOW_EXPIRED"
    ELSE IF now < _bufferPeriodEndTime THEN NoError ELSE "BUFFER_PERIOD_EXPIRED"

\* InputHelpers.ensureArrayIsSorted: strictly ascending
ArrayIsSorted(array) == \A i \in 1..(Len(array) - 1) : array[i] < array[i + 1]

----------------------------------------------------------------------------
(* BaseTokenlessPool: views *)

getSwapFeePercentage == decodeUint(_miscData, _SWAP_FEE_PERCENTAGE_OFFSET, 64)

getVault == _vault

getPoolId == _poolId

getProtocolFeesCollector == _protocolFeesCollector

_getMiscData == _miscData

----------------------------------------------------------------------------
(* BaseTokenlessPool: transactions *)

\* The record of a transaction: the function, msg.sender, its uint256 or
\* bytes32 argument, the constructor's tokens, the error it reverted with
\* (NoError: it did not) and the events it emitted.
PTx(fn, sender, value, tokens, error, events) ==
    [fn |-> fn, sender |-> sender, value |-> value, tokens |-> tokens,
     error |-> error, events |-> events]

\* the storage written by a transaction; immutables and the clock stay
PWrite(miscData, paused, feeSet, call) ==
    /\ _miscData' = miscData
    /\ _paused' = paused
    /\ lastSwapFeeSet' = feeSet
    /\ pCall' = call
    /\ UNCHANGED <<deployed, _pauseWindowEndTime, _bufferPeriodEndTime, _owner, now>>
    /\ UNCHANGED pOthers

\* a transaction that reverted: storage is as before
PRevert(fn, sender, value, tokens, error) ==
    PWrite(_miscData, _paused, lastSwapFeeSet, PTx(fn, sender, value, tokens, error, <<>>))

\* the upper bound is not checked
_setSwapFeePercentage_NoMax(swapFeePercentage) ==
    IF Lt(swapFeePercentage, _getMinSwapFeePercentage)
    THEN [error |-> "MIN_SWAP_FEE_PERCENTAGE", miscData |-> _miscData, events |-> <<>>]
    ELSE [error |-> NoError,
          miscData |-> insertUint(_miscData, swapFeePercentage, _SWAP_FEE_PERCENTAGE_OFFSET, 64),
          events |-> <<<<"SwapFeePercentageChanged", swapFeePercentage>>>>]

\* the fee is inserted one bit too low
_setSwapFeePercentage_Offset191(swapFeePercentage) ==
    IF Lt(swapFeePercentage, _getMinSwapFeePercentage)
    THEN [error |-> "MIN_SWAP_FEE_PERCENTAGE", miscData |-> _miscData, events |-> <<>>]
    ELSE IF Lt(_getMaxSwapFeePercentage, swapFeePercentage)
    THEN [error |-> "MAX_SWAP_FEE_PERCENTAGE", miscData |-> _miscData, events |-> <<>>]
    ELSE [error |-> NoError,
          miscData |-> insertUint(_miscData, swapFeePercentage, 191, 64),
          events |-> <<<<"SwapFeePercentageChanged", swapFeePercentage>>>>]

\* _setSwapFeePercentage: the error, the new _miscData and the events
_setSwapFeePercentage(swapFeePercentage) ==
    IF Lt(swapFeePercentage, _getMinSwapFeePercentage)
    THEN [error |-> "MIN_SWAP_FEE_PERCENTAGE", miscData |-> _miscData, events |-> <<>>]
    ELSE IF Lt(_getMaxSwapFeePercentage, swapFeePercentage)
    THEN [error |-> "MAX_SWAP_FEE_PERCENTAGE", miscData |-> _miscData, events |-> <<>>]
    ELSE [error |-> NoError,
          miscData |-> insertUint(_miscData, swapFeePercentage, _SWAP_FEE_PERCENTAGE_OFFSET, 64),
          events |-> <<<<"SwapFeePercentageChanged", swapFeePercentage>>>>]

\* the whole word is overwritten
_setMiscData_Overwrite(newData) == newData

\* _setMiscData: the new _miscData
_setMiscData(newData) == insertBits192(_miscData, newData, 0)

\* The constructor.  The Vault's registerPool, registerTokens and
\* getProtocolFeesCollector are taken to succeed.  The durations offered are
\* below TemporarilyPausable's maxima, and the guard keeps the end of the
\* Buffer Period before the last timestamp of a run.
constructor(sender, vault, tokens, swapFeePercentage, pauseWindowDuration, bufferPeriodDuration, owner) ==
    /\ ~deployed
    /\ now + pauseWindowDuration + bufferPeriodDuration < MaxTime
    /\ LET fee == _setSwapFeePercentage(swapFeePercentage)
           error == IF Len(tokens) < _MIN_TOKENS THEN "MIN_TOKENS"
                    ELSE IF Len(tokens) > _getMaxTokens THEN "MAX_TOKENS"
                    ELSE IF ~ArrayIsSorted(tokens) THEN "UNSORTED_ARRAY"
                    ELSE fee.error
       IN  IF error # NoError
           THEN PRevert("constructor", sender, swapFeePercentage, tokens, error)
           ELSE /\ deployed' = TRUE
                /\ _owner' = owner
                /\ _paused' = FALSE
                /\ _pauseWindowEndTime' = now + pauseWindowDuration
                /\ _bufferPeriodEndTime' = now + pauseWindowDuration + bufferPeriodDuration
                /\ _miscData' = fee.miscData
                /\ lastSwapFeeSet' = swapFeePercentage
                /\ _vault' = vault
                /\ _poolId' = Vault_registerPool(vault)
                /\ _protocolFeesCollector' = Vault_getProtocolFeesCollector(vault)
                /\ pConstructorVault' = vault
                /\ pCall' = PTx("constructor", sender, swapFeePercentage, tokens, NoError,
                                fee.events)
                /\ now' = now
                /\ UNCHANGED <<wvars, wimm, mvars, dvars>>

\* whenNotPaused reads the flag alone
setSwapFeePercentage_FlagOnly(sender, swapFeePercentage) ==
    /\ deployed
    /\ IF ~_canPerform("setSwapFeePercentage", sender)
       THEN PRevert("setSwapFeePercentage", sender, swapFeePercentage, <<>>, "SENDER_NOT_ALLOWED")
       ELSE IF _paused
       THEN PRevert("setSwapFeePercentage", sender, swapFeePercentage, <<>>, "PAUSED")
       ELSE LET fee == _setSwapFeePercentage(swapFeePercentage)
            IN  IF fee.error # NoError
                THEN PRevert("setSwapFeePercentage", sender, swapFeePercentage, <<>>, fee.error)
                ELSE PWrite(fee.miscData, _paused, swapFeePercentage,
                            PTx("setSwapFeePercentage", sender, swapFeePercentage, <<>>,
                                NoError, fee.events))

\* whenNotPaused is left out
setSwapFeePercentage_NoPauseCheck(sender, swapFeePercentage) ==
    /\ deployed
    /\ IF ~_canPerform("setSwapFeePercentage", sender)
       THEN PRevert("setSwapFeePercentage", sender, swapFeePercentage, <<>>, "SENDER_NOT_ALLOWED")
       ELSE LET fee == _setSwapFeePercentage(swapFeePercentage)
            IN  IF fee.error # NoError
                THEN PRevert("setSwapFeePercentage", sender, swapFeePercentage, <<>>, fee.error)
                ELSE PWrite(fee.miscData, _paused, swapFeePercentage,
                            PTx("setSwapFeePercentage", sender, swapFeePercentage, <<>>,
                                NoError, fee.events))

\* setSwapFeePercentage: authenticate, whenNotPaused, _setSwapFeePercentage
setSwapFeePercentage(sender, swapFeePercentage) ==
    /\ deployed
    /\ IF ~_canPerform("setSwapFeePercentage", sender)
       THEN PRevert("setSwapFeePercentage", sender, swapFeePercentage, <<>>, "SENDER_NOT_ALLOWED")
       ELSE IF ~_isNotPaused
       THEN PRevert("setSwapFeePercentage", sender, swapFeePercentage, <<>>, "PAUSED")
       ELSE LET fee == _setSwapFeePercentage(swapFeePercentage)
            IN  IF fee.error # NoError
                THEN PRevert("setSwapFeePercentage", sender, swapFeePercentage, <<>>, fee.error)
                ELSE PWrite(fee.miscData, _paused, swapFeePercentage,
                            PTx("setSwapFeePercentage", sender, swapFeePercentage, <<>>,
                                NoError, fee.events))

\* setAssetManagerPoolConfig: authenticate, whenNotPaused, then the calls to
\* the Vault and the Asset Manager, which write nothing in the pool;
\* managerOk: whether those calls succeed
setAssetManagerPoolConfig(sender, managerOk) ==
    /\ deployed
    /\ IF ~_canPerform("setAssetManagerPoolConfig", sender)
       THEN PRevert("setAssetManagerPoolConfig", sender, Zero, <<>>, "SENDER_NOT_ALLOWED")
       ELSE IF ~_isNotPaused
       THEN PRevert("setAssetManagerPoolConfig", sender, Zero, <<>>, "PAUSED")
       ELSE IF ~managerOk
       THEN PRevert("setAssetManagerPoolConfig", sender, Zero, <<>>, "ASSET_MANAGER_REVERTED")
       ELSE PWrite(_miscData, _paused, lastSwapFeeSet,
                   PTx("setAssetManagerPoolConfig", sender, Zero, <<>>, NoError, <<>>))

\* authenticate is left out
pause_NoAuth(sender) ==
    /\ deployed
    /\ IF _setPaused(TRUE) # NoError
       THEN PRevert("pause", sender, Zero, <<>>, _setPaused(TRUE))
       ELSE PWrite(_miscData, TRUE, lastSwapFeeSet,
                   PTx("pause", sender, Zero, <<>>, NoError,
                       <<<<"PausedStateChanged", TRUE>>>>))

\* pause: authenticate, _setPaused(true)
pause(sender) ==
    /\ deployed
    /\ IF ~_canPerform("pause", sender)
       THEN PRevert("pause", sender, Zero, <<>>, "SENDER_NOT_ALLOWED")
       ELSE IF _setPaused(TRUE) # NoError
       THEN PRevert("pause", sender, Zero, <<>>, _setPaused(TRUE))
       ELSE PWrite(_miscData, TRUE, lastSwapFeeSet,
                   PTx("pause", sender, Zero, <<>>, NoError,
                       <<<<"PausedStateChanged", TRUE>>>>))

\* unpause: authenticate, _setPaused(false)
unpause(sender) ==
    /\ deployed
    /\ IF ~_canPerform("unpause", sender)
       THEN PRevert("unpause", sender, Zero, <<>>, "SENDER_NOT_ALLOWED")
       ELSE IF _setPaused(FALSE) # NoError
       THEN PRevert("unpause", sender, Zero, <<>>, _setPaused(FALSE))
       ELSE PWrite(_miscData, FALSE, lastSwapFeeSet,
                   PTx("unpause", sender, Zero, <<>>, NoError,
                       <<<<"PausedStateChanged", FALSE>>>>))

\* a call of the internal _setMiscData by the pool itself
SetMiscData(newData) ==
    /\ deployed
    /\ PWrite(_setMiscData(newData), _paused, lastSwapFeeSet,
              PTx("_setMiscData", "pool", newData, <<>>, NoError, <<>>))

\* a block is mined: block.timestamp advances.  Only the time that has
\* passed since the deployment matters, so the clock starts with the pool.
Tick ==
    /\ deployed
    /\ now < MaxTime
    /\ now' = now + 1
    /\ pCall' = PTx("block", "none", Zero, <<>>, NoError, <<>>)
    /\ UNCHANGED <<deployed, _miscData, _paused, _pauseWindowEndTime, _bufferPeriodEndTime,
                   _owner, lastSwapFeeSet>>
    /\ UNCHANGED pOthers

\* before the constructor: zeroed storage
PoolInit ==
    /\ deployed = FALSE
    /\ _miscData = Zero
    /\ _paused = FALSE
    /\ _pauseWindowEndTime = 0
    /\ _bufferPeriodEndTime = 0
    /\ _owner = "none"
    /\ now = 1
    /\ lastSwapFeeSet = Zero
    /\ pCall = PTx("none", "none", Zero, <<>>, NoError, <<>>)
    /\ _vault = NoAddress
    /\ _poolId = NoAddress
    /\ _protocolFeesCollector = NoAddress
    /\ pConstructorVault = NoAddress

PoolNext ==
    \/ \E sender \in {"factory"}, vault \in {"vaultA"}, tokens \in TokenArrayInputs,
          swapFeePercentage \in SwapFeeInputs,
          pauseWindowDuration \in 0..MaxDuration, bufferPeriodDuration \in 0..MaxDuration,
          owner \in Owners :
           constructor(sender, vault, tokens, swapFeePercentage, pauseWindowDuration,
                       bufferPeriodDuration, owner)
    \/ \E sender \in PoolAccounts, swapFeePercentage \in SwapFeeInputs :
           setSwapFeePercentage(sender, swapFeePercentage)
    \/ \E sender \in PoolAccounts, managerOk \in BOOLEAN :
           setAssetManagerPoolConfig(sender, managerOk)
    \/ \E sender \in PoolAccounts : pause(sender)
    \/ \E sender \in PoolAccounts : unpause(sender)
    \/ \E newData \in MiscDataInputs : SetMiscData(newData)
    \/ Tick

----------------------------------------------------------------------------
(* MetaStablePoolOracleMiscData: the library's functions                   *)
(*                                                                         *)
(* [ not used | oracle enabled | oracle index | timestamp | log supply | log invariant ] *)
(* [ uint170  |      bool      |    uint10    |   uint31  |   int22    |     int22     ] *)

_LOG_INVARIANT_OFFSET == 0

_LOG_TOTAL_SUPPLY_OFFSET == 22

_ORACLE_SAMPLE_CREATION_TIMESTAMP_OFFSET == 44

_ORACLE_INDEX_OFFSET == 75

_ORACLE_ENABLED_OFFSET == 85

logInvariant(d) == decodeInt(d, _LOG_INVARIANT_OFFSET, 22)

logTotalSupply(d) == decodeInt(d, _LOG_TOTAL_SUPPLY_OFFSET, 22)

oracleSampleCreationTimestamp(d) == decodeUint(d, _ORACLE_SAMPLE_CREATION_TIMESTAMP_OFFSET, 31)

oracleIndex(d) == decodeUint(d, _ORACLE_INDEX_OFFSET, 10)

oracleEnabled(d) == decodeBool(d, _ORACLE_ENABLED_OFFSET)

setLogInvariant(d, _logInvariant) == insertInt(d, _logInvariant, _LOG_INVARIANT_OFFSET, 22)

\* a variant that writes the total supply over the invariant
setLogTotalSupply_InvariantOffset(d, _logTotalSupply) ==
    insertInt(d, _logTotalSupply, _LOG_INVARIANT_OFFSET, 22)

setLogTotalSupply(d, _logTotalSupply) ==
    insertInt(d, _logTotalSupply, _LOG_TOTAL_SUPPLY_OFFSET, 22)

setOracleSampleCreationTimestamp(d, _initialTimestamp) ==
    insertUint(d, _initialTimestamp, _ORACLE_SAMPLE_CREATION_TIMESTAMP_OFFSET, 31)

setOracleIndex(d, _oracleIndex) == insertUint(d, _oracleIndex, _ORACLE_INDEX_OFFSET, 10)

setOracleEnabled(d, _oracleEnabled) == insertBool(d, _oracleEnabled, _ORACLE_ENABLED_OFFSET)

----------------------------------------------------------------------------
(* MetaStablePoolOracleMiscData: calls *)

\* int22: the least and the greatest value, and values about zero
Int22Inputs == {0 - 2097152, 0 - 699051, 0 - 1, 0, 1, 2097151}

\* uint31
Uint31Inputs == {0, 1, 2147483647}

\* uint10
Uint10Inputs == {0, 682, 1023}

\* the words the first call is given: no bit, bits of the unused part, every bit
DataInputs == {Zero, {86, 192, 255}, WordBits}

\* a call of a setter: its name and its argument, a number or a flag
MTx(fn, value, flag) == [fn |-> fn, value |-> value, flag |-> flag]

MCall(newData, call) ==
    /\ data' = newData
    /\ mCall' = call
    /\ UNCHANGED <<wvars, wimm, pvars, pimm, dvars>>

SetLogInvariant(n) ==
    MCall(setLogInvariant(data, Int256(n)), MTx("setLogInvariant", n, FALSE))

SetLogTotalSupply(n) ==
    MCall(setLogTotalSupply(data, Int256(n)), MTx("setLogTotalSupply", n, FALSE))

SetOracleSampleCreationTimestamp(n) ==
    MCall(setOracleSampleCreationTimestamp(data, Uint256(n)),
          MTx("setOracleSampleCreationTimestamp", n, FALSE))

SetOracleIndex(n) ==
    MCall(setOracleIndex(data, Uint256(n)), MTx("setOracleIndex", n, FALSE))

SetOracleEnabled(b) ==
    MCall(setOracleEnabled(data, b), MTx("setOracleEnabled", 0, b))

\* no setter has been called
MiscDataIdle ==
    /\ data = Zero
    /\ mCall = MTx("none", 0, FALSE)

MiscDataInit ==
    /\ data \in DataInputs
    /\ mCall = MTx("none", 0, FALSE)

MiscDataNext ==
    \/ \E n \in Int22Inputs : SetLogInvariant(n)
    \/ \E n \in Int22Inputs : SetLogTotalSupply(n)
    \/ \E n \in Uint31Inputs : SetOracleSampleCreationTimestamp(n)
    \/ \E n \in Uint10Inputs : SetOracleIndex(n)
    \/ \E b \in BOOLEAN : SetOracleEnabled(b)

----------------------------------------------------------------------------
(* deploy: strings.  A string is the sequence of its characters, so that   *)
(* substr and toLowerCase act on it character by character.                *)

\* undefined or null
Undefined == "undefined"

\* String.prototype.toLowerCase, for the characters of a bytecode
LowerChar(c) ==
    CASE c = "A" -> "a" [] c = "B" -> "b" [] c = "C" -> "c" [] c = "D" -> "d"
      [] c = "E" -> "e" [] c = "F" -> "f" [] c = "X" -> "x" [] OTHER -> c

toLowerCase(str) == [i \in 1..Len(str) |-> LowerChar(str[i])]

\* str.substr(start, length) and str.substr(start), for start >= 0
substr(str, start, length) ==
    SubSeq(str, start + 1, IF start + length < Len(str) THEN start + length ELSE Len(str))

substrFrom(str, start) == SubSeq(str, start + 1, Len(str))

----------------------------------------------------------------------------
(* linkBytecode *)

\* for (const fixup of fixups) bytecode = ... : the fixups from the i-th on
RECURSIVE LinkFixups(_, _, _, _)
LinkFixups(bytecode, address, fixups, i) ==
    IF i > Len(fixups) THEN bytecode
    ELSE LinkFixups(substr(bytecode, 0, fixups[i].start * 2)
                        \o substrFrom(address, 2)
                        \o substrFrom(bytecode, (fixups[i].start + fixups[i].length) * 2),
                    address, fixups, i + 1)

\* for (const [libName, fixups] of Object.entries(fileReferences)): the
\* libraries of one file from the j-th on
RECURSIVE LinkLibraries(_, _, _, _)
LinkLibraries(bytecode, libraries, fileReferences, j) ==
    IF j > Len(fileReferences) THEN bytecode
    ELSE LET libName == fileReferences[j].libName
             linked == IF libName \notin DOMAIN libraries THEN bytecode
                       ELSE LinkFixups(bytecode, libraries[libName],
                                       fileReferences[j].fixups, 1)
         IN  LinkLibraries(linked, libraries, fileReferences, j + 1)

\* for (const [, fileReferences] of Object.entries(linkReferences)): the
\* files from the k-th on
RECURSIVE LinkFiles(_, _, _, _)
LinkFiles(bytecode, libraries, linkReferences, k) ==
    IF k > Len(linkReferences) THEN bytecode
    ELSE LinkFiles(LinkLibraries(bytecode, libraries, linkReferences[k], 1),
                   libraries, linkReferences, k + 1)

\* a variant that writes the bytecode back as it is, in whatever case
linkBytecode_KeepCase(a, libraries) ==
    [a EXCEPT !.bytecode = LinkFiles(a.bytecode, libraries, a.linkReferences, 1)]

\* the artifact as linkBytecode leaves, and returns, it
linkBytecode(a, libraries) ==
    [a EXCEPT !.bytecode =
         toLowerCase(LinkFiles(a.bytecode, libraries, a.linkReferences, 1))]

----------------------------------------------------------------------------
(* deploy: inputs *)

\* an address as a caller writes it: "0x" and twenty bytes, in mixed case
\* as a checksummed address is
Address(c1, c2) == <<"0", "x">> \o [i \in 1..40 |-> IF i % 2 = 1 THEN c1 ELSE c2]

\* the twenty bytes the compiler leaves where a library's address goes:
\* __$ , 34 characters of a hash, $__
Placeholder(c) ==
    [i \in 1..40 |-> IF i \in {1, 2, 39, 40} THEN "_" ELSE IF i \in {3, 38} THEN "$" ELSE c]

Fixup(start) == [start |-> start, length |-> 20]

\* artifacts: no link reference; one library referenced once; two files,
\* the library of the first referenced before and after that of the second
ArtifactInputs ==
    {[bytecode |-> <<"6", "0", "F", "e">>, linkReferences |-> <<>>],
     [bytecode |-> <<"6", "0">> \o Placeholder("1") \o <<"F", "e">>,
      linkReferences |-> << <<[libName |-> "LibA", fixups |-> <<Fixup(1)>>]>> >>],
     [bytecode |-> <<"6", "0">> \o Placeholder("1") \o <<"5", "B">> \o Placeholder("2")
                       \o <<"f", "3">> \o Placeholder("1") \o <<"F", "e">>,
      linkReferences |-> << <<[libName |-> "LibA", fixups |-> <<Fixup(1), Fixup(43)>>]>>,
                            <<[libName |-> "LibB", fixups |-> <<Fixup(22)>>]>> >>]}

\* libs was not passed
NoLibraries == [given |-> FALSE, addresses |-> <<>>]

Libraries(addresses) == [given |-> TRUE, addresses |-> addresses]

\* libraries: none passed; an empty object; one library; the other; both;
\* one whose address was written without its leading zero byte, "0x" and
\* nineteen bytes
LibrariesInputs ==
    {NoLibraries,
     Libraries(<<>>),
     Libraries("LibA" :> Address("A", "9")),
     Libraries("LibB" :> Address("c", "D")),
     Libraries(("LibA" :> Address("A", "9")) @@ ("LibB" :> Address("c", "D"))),
     Libraries("LibA" :> substr(Address("A", "9"), 0, 40))}

\* the k first constructor arguments
Params(k) == [i \in 1..k |-> ToString(i)]

\* an Overrides object, and the empty object {}
SomeOverrides == "{gasLimit}"

EmptyObject == "{}"

\* args: fewer arguments than inputs, as many, more; with and without an
\* Overrides object at the end
ArgsInputs ==
    {Params(k) : k \in 0..(MaxInputs + 2)}
        \cup {Append(Params(k), SomeOverrides) : k \in 0..(MaxInputs + 1)}

NotSent == [args |-> <<>>, overrides |-> Undefined]

----------------------------------------------------------------------------
(* deploy: the call, cut where it awaits *)

\* if (libs) artifact = linkBytecode(artifact, libs)
deploy_link ==
    /\ dpc = "called"
    /\ artifact' = IF libs.given THEN linkBytecode(artifact, libs.addresses) ELSE artifact
    /\ dpc' = "factory"
    /\ UNCHANGED <<libs, args, inputsLength, overrides, encoded, sent, args0, bytecode0>>
    /\ UNCHANGED <<wvars, wimm, pvars, pimm, mvars>>

\* a variant that takes the first element of args as the overrides
deploy_overrides_Shift ==
    /\ dpc = "factory"
    /\ IF Len(args) = inputsLength + 1
       THEN /\ overrides' = Head(args)
            /\ args' = Tail(args)
       ELSE /\ overrides' = EmptyObject
            /\ args' = args
    /\ dpc' = "encode"
    /\ UNCHANGED <<artifact, libs, inputsLength, encoded, sent, args0, bytecode0>>
    /\ UNCHANGED <<wvars, wimm, pvars, pimm, mvars>>

\* let overrides = {}; if (args.length === inputs.length + 1) overrides = args.pop()
deploy_overrides ==
    /\ dpc = "factory"
    /\ IF Len(args) = inputsLength + 1
       THEN /\ overrides' = args[Len(args)]
            /\ args' = SubSeq(args, 1, Len(args) - 1)
       ELSE /\ overrides' = EmptyObject
            /\ args' = args
    /\ dpc' = "encode"
    /\ UNCHANGED <<artifact, libs, inputsLength, encoded, sent, args0, bytecode0>>
    /\ UNCHANGED <<wvars, wimm, pvars, pimm, mvars>>

\* factory.interface.encodeDeploy(args), which throws unless it is given one
\* value for every input, and the gas estimate
deploy_encode ==
    /\ dpc = "encode"
    /\ encoded' = args
    /\ dpc' = IF Len(args) = inputsLength THEN "send" ELSE "threw"
    /\ UNCHANGED <<artifact, libs, args, inputsLength, overrides, sent, args0, bytecode0>>
    /\ UNCHANGED <<wvars, wimm, pvars, pimm, mvars>>

\* factory.connect(from).deploy(...args, overrides), and the wait for it
deploy_send ==
    /\ dpc = "send"
    /\ sent' = [args |-> args, overrides |-> overrides]
    /\ dpc' = "done"
    /\ UNCHANGED <<artifact, libs, args, inputsLength, overrides, encoded, args0, bytecode0>>
    /\ UNCHANGED <<wvars, wimm, pvars, pimm, mvars>>

\* deploy has not been called
DeployIdle ==
    /\ dpc = "none"
    /\ artifact = [bytecode |-> <<>>, linkReferences |-> <<>>]
    /\ libs = NoLibraries
    /\ args = <<>>
    /\ inputsLength = 0
    /\ overrides = Undefined
    /\ encoded = <<>>
    /\ sent = NotSent
    /\ args0 = <<>>
    /\ bytecode0 = <<>>

\* deploy(artifact, args, from, libs, wait) has been called
DeployInit ==
    /\ dpc = "called"
    /\ artifact \in ArtifactInputs
    /\ libs \in LibrariesInputs
    /\ args \in ArgsInputs
    /\ inputsLength \in 0..MaxInputs
    /\ overrides = Undefined
    /\ encoded = <<>>
    /\ sent = NotSent
    /\ args0 = args
    /\ bytecode0 = artifact.bytecode

DeployNext ==
    \/ deploy_link
    \/ deploy_overrides
    \/ deploy_encode
    \/ deploy_send

----------------------------------------------------------------------------
(* Specifications *)

\* the withdrawer, beside a pool that is not deployed
Init == WithdrawerInit /\ PoolInit /\ MiscDataIdle /\ DeployIdle

Next == WithdrawerNext

Spec == Init /\ [][Next]_vars

\* the pool, beside a withdrawer that is left alone
PoolSpecInit ==
    WithdrawerConstructed("vaultA", <<>>) /\ PoolInit /\ MiscDataIdle /\ DeployIdle

PoolSpec == PoolSpecInit /\ [][PoolNext]_vars

\* time passes: a block is mined again and again
PoolFairSpec == PoolSpec /\ WF_vars(Tick)

\* the library, beside contracts that are left alone
MiscDataSpecInit ==
    WithdrawerConstructed("vaultA", <<>>) /\ PoolInit /\ MiscDataInit /\ DeployIdle

MiscDataSpec == MiscDataSpecInit /\ [][MiscDataNext]_vars

\* the two contracts side by side, each deployed against a Vault of its own
\* choice, each function called with one argument list
ImmutablesInit ==
    /\ \E vault \in Vaults : WithdrawerConstructed(vault, <<>>)
    /\ PoolInit
    /\ MiscDataIdle
    /\ DeployIdle

ImmutablesNext ==
    \/ withdrawCollectedFees("keeper", <<"DAI">>, TRUE)
    \/ denylistToken("governance", "DAI")
    \/ allowlistToken("governance", "DAI")
    \/ isWithdrawableTokens_view("stranger", <<"DAI">>)
    \/ isWithdrawableToken_view("stranger", "DAI")
    \/ getDenylistedToken("stranger", 0)
    \/ getDenylistedTokensLength("stranger")
    \/ \E vault \in Vaults :
           constructor("factory", vault, <<1, 2>>, _MIN_SWAP_FEE_PERCENTAGE, 1, 0, "alice")
    \/ setSwapFeePercentage("alice", _MAX_SWAP_FEE_PERCENTAGE)
    \/ setAssetManagerPoolConfig("alice", TRUE)
    \/ pause("governance")
    \/ unpause("governance")
    \/ SetMiscData({0, 21, 22, 85, 191, 192, 255})
    \/ Tick

ImmutablesSpec == ImmutablesInit /\ [][ImmutablesNext]_vars

\* a call of deploy, beside contracts that are left alone
DeploySpecInit ==
    WithdrawerConstructed("vaultA", <<>>) /\ PoolInit /\ MiscDataIdle /\ DeployInit

DeploySpec == DeploySpecInit /\ [][DeployNext]_vars

----------------------------------------------------------------------------
(* Claims about ProtocolFeesWithdrawer, checked under Spec *)

AnyDenylisted(tokens) == \E i \in 1..Len(tokens) : tokens[i] \in Range(_denylistedTokens)

DenylistedMessage == "Attempting to withdraw denylisted token"

\* C1 as stated: a withdrawCollectedFees call whose tokens contain a denylisted
\* token reverts with "Attempting to withdraw denylisted token" and does not
\* invoke the ProtocolFeesCollector, so the collector is only ever called
\* with tokens that are all withdrawable at the moment of the call.
C1_RevertsWithDenylistedMessage ==
    wCall.fn = "withdrawCollectedFees" =>
        /\ AnyDenylisted(wCall.tokens) =>
               wCall.error = DenylistedMessage /\ ~wCall.collectorCalled
        /\ wCall.collectorCalled => ~AnyDenylisted(wCall.tokens)

\* C1 as amended: such a call reverts and does not invoke the collector; the
\* revert carries "Attempting to withdraw denylisted token" when the caller
\* passes authenticate and SENDER_NOT_ALLOWED, raised by the authenticate
\* modifier before the token check, when it does not.  The collector is only
\* ever called with tokens that are all withdrawable at the moment of the call.
C1_DenylistedNeverWithdrawn ==
    wCall.fn = "withdrawCollectedFees" =>
        /\ AnyDenylisted(wCall.tokens) =>
               /\ ~wCall.collectorCalled
               /\ wCall.error = IF Singleton_canPerform("withdrawCollectedFees", wCall.sender)
                                THEN DenylistedMessage
                                ELSE "SENDER_NOT_ALLOWED"
        /\ wCall.collectorCalled => ~AnyDenylisted(wCall.tokens)

\* an authorized caller was refused a withdrawal whose second token is denylisted
C1_Witness ==
    /\ wCall.fn = "withdrawCollectedFees"
    /\ Singleton_canPerform("withdrawCollectedFees", wCall.sender)
    /\ Len(wCall.tokens) = 2
    /\ wCall.tokens[1] \notin Range(_denylistedTokens)
    /\ wCall.tokens[2] \in Range(_denylistedTokens)
    /\ wCall.error = DenylistedMessage

\* C2: isWithdrawableTokens(tokens) returns false if any token of the array is
\* denylisted and true otherwise (true for the empty array),
\* isWithdrawableToken(t) returns true exactly when t is not in the denylist,
\* and neither call changes the denylist.
C2_ViewsAnswerFromDenylist ==
    /\ wCall.fn = "isWithdrawableTokens" =>
           /\ wCall.error = NoError
           /\ wCall.result = <<~AnyDenylisted(wCall.tokens)>>
           /\ _denylistedTokens = wPrev
    /\ wCall.fn = "isWithdrawableToken" =>
           /\ wCall.error = NoError
           /\ wCall.result = <<wCall.tokens[1] \notin Range(_denylistedTokens)>>
           /\ _denylistedTokens = wPrev

\* isWithdrawableTokens answered false for an array whose first token is
\* withdrawable and whose second is denylisted
C2_Witness ==
    /\ wCall.fn = "isWithdrawableTokens"
    /\ Len(wCall.tokens) = 2
    /\ wCall.tokens[1] \notin Range(_denylistedTokens)
    /\ wCall.tokens[2] \in Range(_denylistedTokens)
    /\ wCall.result = <<FALSE>>

Succeeded(call, fn, token) ==
    call.fn = fn /\ call.tokens = <<token>> /\ call.error = NoError

\* C3: a successful denylistToken(t) makes isWithdrawableToken(t) false and
\* leaves the withdrawability of every other token as it was; and a token
\* that is not withdrawable stays so through every step that is not a
\* successful allowlistToken of that token.
C3_DenylistedUntilAllowlisted ==
    [][\A t \in Tokens :
        /\ Succeeded(wCall', "denylistToken", t) =>
               /\ ~isWithdrawableToken(t)'
               /\ \A u \in Tokens \ {t} : isWithdrawableToken(u)' = isWithdrawableToken(u)
        /\ (~isWithdrawableToken(t) /\ ~Succeeded(wCall', "allowlistToken", t)) =>
               ~isWithdrawableToken(t)'
      ]_vars

\* denylistToken succeeded on a denylist that held other tokens already
C3_Witness ==
    /\ wCall.fn = "denylistToken"
    /\ wCall.error = NoError
    /\ Len(wPrev) >= 1
    /\ ~isWithdrawableToken(wCall.tokens[1])
    /\ Range(wPrev) \subseteq Range(_denylistedTokens)

\* C4: a successful allowlistToken(t) makes isWithdrawableToken(t) true, a
\* withdrawable token stays so through every step that is not a successful
\* denylistToken of that token, and allowlistToken(t) right after
\* denylistToken(t) leaves the set of denylisted tokens as it was before the
\* two calls.
C4_AllowlistedUntilDenylisted ==
    [][\A t \in Tokens :
        /\ Succeeded(wCall', "allowlistToken", t) => isWithdrawableToken(t)'
        /\ (isWithdrawableToken(t) /\ ~Succeeded(wCall', "denylistToken", t)) =>
               isWithdrawableToken(t)'
        /\ (Succeeded(wCall, "denylistToken", t) /\ Succeeded(wCall', "allowlistToken", t)) =>
               Range(_denylistedTokens') = Range(wPrev)
      ]_vars

\* allowlistToken removed a token that was not the last of the array, so
\* that the last value moved into its slot
C4_Witness ==
    /\ wCall.fn = "allowlistToken"
    /\ wCall.error = NoError
    /\ Len(wPrev) = 3
    /\ wPrev[1] = wCall.tokens[1]
    /\ _denylistedTokens = <<wPrev[3], wPrev[2]>>

----------------------------------------------------------------------------
(* Claims about BaseTokenlessPool, checked under PoolSpec and PoolFairSpec *)

SwapFeeInBounds(fee) ==
    ~Lt(fee, _MIN_SWAP_FEE_PERCENTAGE) /\ ~Lt(_MAX_SWAP_FEE_PERCENTAGE, fee)

\* the transactions that call _setSwapFeePercentage
SetsSwapFee(call) == call.fn \in {"setSwapFeePercentage", "constructor"}

SwapFeeEvents(call) ==
    SelectSeq(call.events, LAMBDA e : e[1] = "SwapFeePercentageChanged")

Low192(word) == BitAnd(word, Mask(192))

\* C5 as stated: the swap fee of a constructed pool is between 1e12 and 1e17
\* inclusive in every state, and a setSwapFeePercentage or constructor call
\* with a value below 1e12 reverts with MIN_SWAP_FEE_PERCENTAGE, with a value
\* above 1e17 with MAX_SWAP_FEE_PERCENTAGE, leaving the stored fee unchanged.
C5_RevertsWithFeeBoundError ==
    [][/\ deployed' => SwapFeeInBounds(getSwapFeePercentage')
       /\ (SetsSwapFee(pCall') /\ Lt(pCall'.value, _MIN_SWAP_FEE_PERCENTAGE)) =>
              /\ pCall'.error = "MIN_SWAP_FEE_PERCENTAGE"
              /\ getSwapFeePercentage' = getSwapFeePercentage
       /\ (SetsSwapFee(pCall') /\ Lt(_MAX_SWAP_FEE_PERCENTAGE, pCall'.value)) =>
              /\ pCall'.error = "MAX_SWAP_FEE_PERCENTAGE"
              /\ getSwapFeePercentage' = getSwapFeePercentage
      ]_vars

\* whether the call, made in the current state, gets as far as
\* _setSwapFeePercentage: no earlier check of it reverts
ReachesSwapFeeCheck(call) ==
    IF call.fn = "constructor"
    THEN /\ Len(call.tokens) >= _MIN_TOKENS
         /\ Len(call.tokens) <= _getMaxTokens
         /\ ArrayIsSorted(call.tokens)
    ELSE _canPerform("setSwapFeePercentage", call.sender) /\ _isNotPaused

\* C5 as amended: the swap fee of a constructed pool is between 1e12 and 1e17
\* inclusive in every state; a setSwapFeePercentage or constructor call with
\* a value below 1e12 or above 1e17 reverts, leaving the stored fee
\* unchanged, and the error is MIN_SWAP_FEE_PERCENTAGE, respectively
\* MAX_SWAP_FEE_PERCENTAGE, whenever no earlier check of the call
\* (authenticate and whenNotPaused; in the constructor the checks of the
\* token array) has reverted it first.
C5_SwapFeeWithinBounds ==
    [][/\ deployed' => SwapFeeInBounds(getSwapFeePercentage')
       /\ (SetsSwapFee(pCall') /\ Lt(pCall'.value, _MIN_SWAP_FEE_PERCENTAGE)) =>
              /\ pCall'.error # NoError
              /\ ReachesSwapFeeCheck(pCall') => pCall'.error = "MIN_SWAP_FEE_PERCENTAGE"
              /\ getSwapFeePercentage' = getSwapFeePercentage
       /\ (SetsSwapFee(pCall') /\ Lt(_MAX_SWAP_FEE_PERCENTAGE, pCall'.value)) =>
              /\ pCall'.error # NoError
              /\ ReachesSwapFeeCheck(pCall') => pCall'.error = "MAX_SWAP_FEE_PERCENTAGE"
              /\ getSwapFeePercentage' = getSwapFeePercentage
      ]_vars

\* a pool whose fee is 1e17 refused 1e17 + 1
C5_Witness ==
    /\ deployed
    /\ pCall.fn = "setSwapFeePercentage"
    /\ pCall.value = Inc(_MAX_SWAP_FEE_PERCENTAGE)
    /\ pCall.error = "MAX_SWAP_FEE_PERCENTAGE"
    /\ getSwapFeePercentage = _MAX_SWAP_FEE_PERCENTAGE

\* C6: setSwapFeePercentage changes the swap fee only when the caller is
\* authorized for the action and the pool is not paused; when the pool is
\* paused or the caller is not authorized the call reverts, the stored fee
\* is unchanged and no SwapFeePercentageChanged event is emitted.
C6_PermissionedAndPausable ==
    [][pCall'.fn = "setSwapFeePercentage" =>
          LET allowed == _canPerform("setSwapFeePercentage", pCall'.sender) /\ _isNotPaused
          IN  /\ getSwapFeePercentage' # getSwapFeePercentage => allowed
              /\ ~allowed =>
                     /\ pCall'.error # NoError
                     /\ getSwapFeePercentage' = getSwapFeePercentage
                     /\ SwapFeeEvents(pCall') = <<>>
      ]_vars

\* an authorized caller was refused a valid fee because the pool is paused
C6_Witness ==
    /\ deployed
    /\ pCall.fn = "setSwapFeePercentage"
    /\ _canPerform("setSwapFeePercentage", pCall.sender)
    /\ SwapFeeInBounds(pCall.value)
    /\ pCall.value # getSwapFeePercentage
    /\ pCall.error = "PAUSED"

\* C7: _setMiscData(newData) puts the low 192 bits of newData in the low 192
\* bits of the slot and leaves getSwapFeePercentage() as it was, whatever
\* the upper 64 bits of newData; and a successful _setSwapFeePercentage
\* leaves the low 192 bits of _getMiscData() as they were.
C7_SwapFeeAndMiscDataDisjoint ==
    [][/\ pCall'.fn = "_setMiscData" =>
              /\ getSwapFeePercentage' = getSwapFeePercentage
              /\ Low192(_getMiscData') = Low192(pCall'.value)
       /\ (SetsSwapFee(pCall') /\ pCall'.error = NoError) =>
              Low192(_getMiscData') = Low192(_getMiscData)
      ]_vars

\* _setMiscData was given a word with one-bits above bit 191 by a pool
\* whose fee is 1e17
C7_Witness ==
    /\ pCall.fn = "_setMiscData"
    /\ pCall.value \cap (192..255) # {}
    /\ Low192(_getMiscData) # {}
    /\ getSwapFeePercentage = _MAX_SWAP_FEE_PERCENTAGE

\* C8: getSwapFeePercentage() is the argument of the most recent successful
\* _setSwapFeePercentage (the constructor's or a later setSwapFeePercentage);
\* a transaction emits one SwapFeePercentageChanged event, carrying that
\* argument, when it is a successful set, and none otherwise.
C8_SwapFeeIsLastSet ==
    [][/\ deployed' => getSwapFeePercentage' = lastSwapFeeSet'
       /\ (SetsSwapFee(pCall') /\ pCall'.error = NoError) =>
              /\ getSwapFeePercentage' = pCall'.value
              /\ SwapFeeEvents(pCall') = <<<<"SwapFeePercentageChanged", pCall'.value>>>>
       /\ ~(SetsSwapFee(pCall') /\ pCall'.error = NoError) =>
              /\ getSwapFeePercentage' = getSwapFeePercentage
              /\ SwapFeeEvents(pCall') = <<>>
      ]_vars

\* the fee set by the constructor was replaced by a later
\* setSwapFeePercentage, in a slot that holds misc data
C8_Witness ==
    /\ deployed
    /\ pCall.fn = "setSwapFeePercentage"
    /\ pCall.error = NoError
    /\ Low192(_getMiscData) # {}
    /\ getSwapFeePercentage = _MIN_SWAP_FEE_PERCENTAGE
    /\ pCall.sender = "governance"

\* C9: pause() puts the pool in the paused state when the caller is
\* authorized and the time is within the Pause Window; after the Pause
\* Window has ended, or from an unauthorized caller, it reverts and the
\* paused state is unchanged.
C9_PauseOnlyInPauseWindow ==
    [][pCall'.fn = "pause" =>
          LET allowed == _canPerform("pause", pCall'.sender) /\ now < _pauseWindowEndTime
          IN  /\ allowed => (pCall'.error = NoError /\ _paused' /\ ~_isNotPaused')
              /\ ~allowed =>
                     /\ pCall'.error # NoError
                     /\ _paused' = _paused
                     /\ _isNotPaused' = _isNotPaused
      ]_vars

\* an authorized caller was refused at the very end of the Pause Window
C9_Witness ==
    /\ deployed
    /\ pCall.fn = "pause"
    /\ _canPerform("pause", pCall.sender)
    /\ now = _pauseWindowEndTime
    /\ now < _bufferPeriodEndTime
    /\ pCall.error = "PAUSE_WINDOW_EXPIRED"

BufferPeriodExpired == deployed /\ now > _bufferPeriodEndTime

----------------------------------------------------------------------------
(* Claims about MetaStablePoolOracleMiscData, checked under MiscDataSpec *)

\* C11: setter/getter round trip.  Whatever the word a setter is applied to,
\* and whatever the in-range value it is given (int22 for logInvariant and
\* logTotalSupply, negative values too; uint31 for
\* oracleSampleCreationTimestamp; uint10 for oracleIndex; a flag for
\* oracleEnabled), the getter of the same field returns from the setter's
\* result exactly the value that was set, and setting that value once more
\* gives the same word again.
C11_SetterGetterRoundTrip ==
    /\ mCall.fn = "setLogInvariant" =>
           /\ logInvariant(data) = Int256(mCall.value)
           /\ setLogInvariant(data, Int256(mCall.value)) = data
    /\ mCall.fn = "setLogTotalSupply" =>
           /\ logTotalSupply(data) = Int256(mCall.value)
           /\ setLogTotalSupply(data, Int256(mCall.value)) = data
    /\ mCall.fn = "setOracleSampleCreationTimestamp" =>
           /\ oracleSampleCreationTimestamp(data) = Uint256(mCall.value)
           /\ setOracleSampleCreationTimestamp(data, Uint256(mCall.value)) = data
    /\ mCall.fn = "setOracleIndex" =>
           /\ oracleIndex(data) = Uint256(mCall.value)
           /\ setOracleIndex(data, Uint256(mCall.value)) = data
    /\ mCall.fn = "setOracleEnabled" =>
           /\ oracleEnabled(data) = mCall.flag
           /\ setOracleEnabled(data, mCall.flag) = data

\* a negative total supply has been set in a word whose neighbouring
\* fields, and whose unused part, hold one-bits
C11_Witness ==
    /\ mCall.fn = "setLogTotalSupply"
    /\ mCall.value < 0
    /\ logInvariant(data) = Int256(2097151)
    /\ oracleSampleCreationTimestamp(data) = Uint256(1)
    /\ oracleEnabled(data)
    /\ 86 \in data

----------------------------------------------------------------------------
(* Claims about the immutables of both contracts, checked under ImmutablesSpec *)

\* C12: the vault, the pool id and the ProtocolFeesCollector of a
\* BaseTokenlessPool, and the ProtocolFeesCollector of a
\* ProtocolFeesWithdrawer, are set from the Vault on construction and never
\* change: getVault() is the constructor's vault, getPoolId() the id that
\* vault.registerPool returned, getProtocolFeesCollector() what
\* vault.getProtocolFeesCollector() returned, and every later operation on
\* either contract leaves what the three getters return as it was.
C12_ImmutablesFromVault ==
    /\ [](/\ Withdrawer_getProtocolFeesCollector =
                 Vault_getProtocolFeesCollector(wConstructorVault)
          /\ deployed =>
                 /\ getVault = pConstructorVault
                 /\ getPoolId = Vault_registerPool(pConstructorVault)
                 /\ getProtocolFeesCollector =
                        Vault_getProtocolFeesCollector(pConstructorVault))
    /\ [][/\ Withdrawer_getProtocolFeesCollector' = Withdrawer_getProtocolFeesCollector
          /\ wConstructorVault' = wConstructorVault
          /\ deployed =>
                 /\ deployed'
                 /\ getVault' = getVault
                 /\ getPoolId' = getPoolId
                 /\ getProtocolFeesCollector' = getProtocolFeesCollector
                 /\ pConstructorVault' = pConstructorVault
         ]_vars

\* a pool deployed against one Vault beside a withdrawer deployed against
\* the other, after transactions that changed the storage of both
C12_Witness ==
    /\ deployed
    /\ pConstructorVault = "vaultB"
    /\ wConstructorVault = "vaultA"
    /\ now > 1
    /\ getSwapFeePercentage = _MAX_SWAP_FEE_PERCENTAGE
    /\ _paused
    /\ wCall.fn = "denylistToken"
    /\ wCall.error = NoError

----------------------------------------------------------------------------
(* Claims about deploy and linkBytecode, checked under DeploySpec *)

\* the constructor arguments and the overrides that the args deploy was
\* called with stand for
ConstructorArguments ==
    IF Len(args0) = inputsLength + 1 THEN SubSeq(args0, 1, inputsLength) ELSE args0

TransactionOverrides ==
    IF Len(args0) = inputsLength + 1 THEN args0[Len(args0)] ELSE EmptyObject

\* C13: if exactly one parameter more than the constructor has inputs was
\* passed in, it contains the overrides.  When args.length is the number of
\* inputs plus one, the last element is removed from args and is the
\* overrides of the transaction, and the elements before it, in their
\* order, are the constructor arguments; for any other length the overrides
\* are the empty object and all of args is what encodeDeploy, and
\* factory.deploy if it is reached, are given as constructor arguments.
C13_OverridesFromExtraParameter ==
    /\ dpc \in {"encode", "send", "threw", "done"} =>
           /\ args = ConstructorArguments
           /\ overrides = TransactionOverrides
    /\ dpc \in {"send", "threw", "done"} => encoded = ConstructorArguments
    /\ dpc = "done" =>
           sent = [args |-> ConstructorArguments, overrides |-> TransactionOverrides]

\* a contract of two inputs has been deployed with three parameters, the
\* last of them an Overrides object
C13_Witness ==
    /\ dpc = "done"
    /\ inputsLength = 2
    /\ Len(args0) = 3
    /\ Len(args) = 2
    /\ sent.overrides = SomeOverrides

\* linkBytecode has run on the artifact
Linked == dpc \in {"factory", "encode", "send", "threw", "done"} /\ libs.given

\* the link references of the artifact that was passed in: a library's name
\* with each of its fixups
LinkReferences ==
    UNION {UNION {{<<artifact.linkReferences[k][j].libName,
                     artifact.linkReferences[k][j].fixups[i]>> :
                       i \in 1..Len(artifact.linkReferences[k][j].fixups)} :
                  j \in 1..Len(artifact.linkReferences[k])} :
           k \in 1..Len(artifact.linkReferences)}

\* those of the libraries that have an address in libs
AddressedReferences == {r \in LinkReferences : r[1] \in DOMAIN libs.addresses}

\* the characters of a fixup in the bytecode, counted from 1
FixupChars(fixup) == (fixup.start * 2 + 1)..((fixup.start + fixup.length) * 2)

\* the bytecode from its p-th character on, each addressed fixup cut out and
\* the address without its "0x" put in its place, all in lower case
RECURSIVE Spliced(_, _)
Spliced(bytecode, p) ==
    LET ahead == {r \in AddressedReferences : r[2].start * 2 + 1 >= p}
    IN  IF ahead = {} THEN toLowerCase(SubSeq(bytecode, p, Len(bytecode)))
        ELSE LET r == CHOOSE x \in ahead : \A y \in ahead : x[2].start <= y[2].start
             IN  toLowerCase(SubSeq(bytecode, p, r[2].start * 2))
                     \o toLowerCase(substrFrom(libs.addresses[r[1]], 2))
                     \o Spliced(bytecode, (r[2].start + r[2].length) * 2 + 1)

\* every fixup is 20 bytes and every address is "0x" and 20 bytes
TwentyBytes ==
    /\ \A r \in LinkReferences : r[2].length = 20
    /\ \A name \in DOMAIN libs.addresses : Len(libs.addresses[name]) = 42

\* every address that is linked is "0x" and as many bytes as each fixup
\* it goes into
AddressesFit ==
    \A r \in AddressedReferences : Len(libs.addresses[r[1]]) = 2 + r[2].length * 2

\* C14 as it was stated: whatever the addresses, the bytecode written back
\* into the artifact is the one that was passed in with every fixup of a
\* library that has an address replaced by the address without its "0x", and
\* with everything else, the placeholders of the other libraries too, as it
\* was apart from lower-casing; its length is the same whenever fixups and
\* addresses are 20 bytes.
C14_LinksEveryAddress ==
    Linked =>
        /\ artifact.bytecode = Spliced(bytecode0, 1)
        /\ TwentyBytes => Len(artifact.bytecode) = Len(bytecode0)

\* C14: linkBytecode writes back into the artifact that was passed in a
\* bytecode which, provided every address that is linked is "0x" followed by
\* as many bytes as the fixups it goes into (20 and 20 as the compiler and
\* the chain have them), has the length of the bytecode passed in, holds at
\* the characters of every fixup of a library that has an address the
\* address without its "0x", in lower case, and holds everywhere else, the
\* placeholders of libraries without an address included, the character
\* that was there, in lower case.
C14_LinksAddressesOfFixupLength ==
    (Linked /\ AddressesFit) =>
        /\ Len(artifact.bytecode) = Len(bytecode0)
        /\ \A r \in AddressedReferences : \A p \in FixupChars(r[2]) :
               artifact.bytecode[p] =
                   LowerChar(libs.addresses[r[1]][2 + (p - r[2].start * 2)])
        /\ \A p \in 1..Len(bytecode0) :
               (\A r \in AddressedReferences : p \notin FixupChars(r[2])) =>
                   artifact.bytecode[p] = LowerChar(bytecode0[p])
        /\ artifact.bytecode = Spliced(bytecode0, 1)

\* an artifact that refers to two libraries has been linked with the
\* checksummed address of one of them only
C14_Witness ==
    /\ Linked
    /\ AddressesFit
    /\ Cardinality(AddressedReferences) = 2
    /\ Cardinality(LinkReferences) = 3
    /\ artifact.bytecode # toLowerCase(bytecode0)
    /\ \E p \in 1..Len(artifact.bytecode) : artifact.bytecode[p] = "$"

====
